---- MODULE Spec2Model ----
(***************************************************************************)
(* Gemini Photo Tour Guide: the request orchestrator of App.tsx            *)
(* (resetState / handleImageSelect), the three remote operations of        *)
(* services/geminiService.ts with their error normalisation, and the       *)
(* status-driven view selection.                                           *)
(*                                                                         *)
(* React 19 batches the setX calls of one event handler and of one async   *)
(* continuation into a single commit, so every action below is one         *)
(* committed state transition: the whole handler, or the whole stretch of  *)
(* handleImageSelect between two awaits.                                   *)
(***************************************************************************)
EXTENDS Integers, Sequences, FiniteSets, TLC

\* ------------------------------------------------------------------ bounds
\* number of handleImageSelect invocations in one behaviour
MaxRequests == 2

\* number of Web Audio objects (AudioContexts and AudioBufferSourceNodes) one
\* useAudioPlayback instance creates in one behaviour
MaxObjects == 4

\* ------------------------------------------------------------- Status enum
Idle == "idle"
Identifying == "identifying"
Fetching == "fetching"
Narrating == "narrating"
Done == "done"
Error == "error"

Status == {Idle, Identifying, Fetching, Narrating, Done, Error}

\* ------------------------------------------------- JavaScript null / undefined
Null == "<null>"
Undefined == "<undefined>"

\* ----------------------------------------------------------- input domains
\* the files a user can pick (File objects, named by their file name)
Files == {"a.jpg", "b.png"}

\* the message texts a transport failure can carry
RawMessages ==
  {"The Model is  overloaded", "503 Service Unavailable", "UNAVAILABLE",
   "Rate limit exceeded", "HTTP 429", "429: service unavailable",
   "Server overloaded", "fetch failed", "  ", ""}

\* the characters of the message texts (TLC cannot index a string)
C_ModelOverloaded ==
  <<"T", "h", "e", " ", "M", "o", "d", "e", "l", " ", "i", "s", " ", " ", "o", "v", "e", "r", "l", "o", "a", "d", "e", "d">>
C_503 ==
  <<"5", "0", "3", " ", "S", "e", "r", "v", "i", "c", "e", " ", "U", "n", "a", "v", "a", "i", "l", "a", "b", "l", "e">>
C_Unavailable ==
  <<"U", "N", "A", "V", "A", "I", "L", "A", "B", "L", "E">>
C_RateLimit ==
  <<"R", "a", "t", "e", " ", "l", "i", "m", "i", "t", " ", "e", "x", "c", "e", "e", "d", "e", "d">>
C_429 ==
  <<"H", "T", "T", "P", " ", "4", "2", "9">>
C_429Unavailable ==
  <<"4", "2", "9", ":", " ", "s", "e", "r", "v", "i", "c", "e", " ", "u", "n", "a", "v", "a", "i", "l", "a", "b", "l", "e">>
C_ServerOverloaded ==
  <<"S", "e", "r", "v", "e", "r", " ", "o", "v", "e", "r", "l", "o", "a", "d", "e", "d">>
C_FetchFailed ==
  <<"f", "e", "t", "c", "h", " ", "f", "a", "i", "l", "e", "d">>
C_Blank ==
  <<" ", " ">>
C_Empty ==
  <<>>
C_ApiKey ==
  <<"G", "E", "M", "I", "N", "I", "_", "A", "P", "I", "_", "K", "E", "Y", " ", "e", "n",
   "v", "i", "r", "o", "n", "m", "e", "n", "t", " ", "v", "a", "r", "i", "a", "b", "l",
   "e", " ", "i", "s", " ", "n", "o", "t", " ", "s", "e", "t", ".", " ", "P", "l", "e",
   "a", "s", "e", " ", "c", "r", "e", "a", "t", "e", " ", "a", " ", ".", "e", "n", "v",
   ".", "l", "o", "c", "a", "l", " ", "f", "i", "l", "e", " ", "w", "i", "t", "h", " ",
   "y", "o", "u", "r", " ", "A", "P", "I", " ", "k", "e", "y", ".">>
C_Default ==
  <<"A", "n", " ", "u", "n", "e", "x", "p", "e", "c", "t", "e", "d", " ", "e", "r", "r", "o", "r", " ", "o", "c", "c", "u", "r", "r", "e", "d", " ", "w", "h", "i", "l", "e", " ", "c", "o", "n", "t", "a", "c", "t", "i", "n", "g", " ", "t", "h", "e", " ", "G", "e", "m", "i", "n", "i", " ", "s", "e", "r", "v", "i", "c", "e", ".">>

Chars(m) ==
  CASE m = "The Model is  overloaded" -> C_ModelOverloaded
    [] m = "503 Service Unavailable" -> C_503
    [] m = "UNAVAILABLE" -> C_Unavailable
    [] m = "Rate limit exceeded" -> C_RateLimit
    [] m = "HTTP 429" -> C_429
    [] m = "429: service unavailable" -> C_429Unavailable
    [] m = "Server overloaded" -> C_ServerOverloaded
    [] m = "fetch failed" -> C_FetchFailed
    [] m = "  " -> C_Blank
    [] m = "" -> C_Empty
    [] m = "An unexpected error occurred while contacting the Gemini service." -> C_Default
    [] m = "GEMINI_API_KEY environment variable is not set. Please create a .env.local file with your API key." -> C_ApiKey

\* the values a transport call (or fileToBase64) can reject with:
\* an Error instance, a plain object with optional message fields, or a
\* primitive
RawErrors ==
  [isError : {TRUE}, isObject : {TRUE}, message : RawMessages,
   errorMessage : {Undefined}, statusMessage : {Undefined}]
  \cup
  [isError : {FALSE}, isObject : {TRUE}, message : {Undefined, "", "fetch failed"},
   errorMessage : {Undefined, "HTTP 429"}, statusMessage : {Undefined, "UNAVAILABLE"}]
  \cup
  [isError : {FALSE}, isObject : {FALSE}, message : {Undefined},
   errorMessage : {Undefined}, statusMessage : {Undefined}]

\* what fileToBase64 can reject with: an Error, or the reader's error event
FileReaderErrors ==
  {e \in RawErrors : (e.isError /\ e.message = "fetch failed") \/ ~e.isObject}

\* the rejections the orchestrator is driven with: an overload, a rate limit,
\* a message no pattern matches, and a rejection that is not an object
TransportErrors ==
  {e \in RawErrors :
     \/ e.isError /\ e.message \in {"503 Service Unavailable", "HTTP 429", "fetch failed"}
     \/ ~e.isObject}

\* the Error that getAI throws when no key is configured
ApiKeyError ==
  [isError |-> TRUE, isObject |-> TRUE,
   message |-> "GEMINI_API_KEY environment variable is not set. Please create a .env.local file with your API key.",
   errorMessage |-> Undefined, statusMessage |-> Undefined]

\* ------------------------------------------------------ regular expressions
IsSpace(c) == c \in {" ", "\t", "\n"}

\* String.prototype.toLowerCase on one character
LowerChar(c) ==
  CASE c = "A" -> "a" [] c = "B" -> "b" [] c = "C" -> "c" [] c = "D" -> "d"
    [] c = "E" -> "e" [] c = "F" -> "f" [] c = "G" -> "g" [] c = "H" -> "h"
    [] c = "I" -> "i" [] c = "J" -> "j" [] c = "K" -> "k" [] c = "L" -> "l"
    [] c = "M" -> "m" [] c = "N" -> "n" [] c = "O" -> "o" [] c = "P" -> "p"
    [] c = "Q" -> "q" [] c = "R" -> "r" [] c = "S" -> "s" [] c = "T" -> "t"
    [] c = "U" -> "u" [] c = "V" -> "v" [] c = "W" -> "w" [] c = "X" -> "x"
    [] c = "Y" -> "y" [] c = "Z" -> "z" [] OTHER -> c

\* the i-th character of m, as the pattern compares it: lowered under the
\* flag i (ci), as written otherwise
CharAt(m, i, ci) == IF ci THEN LowerChar(Chars(m)[i]) ELSE Chars(m)[i]

\* the literal word w stands in m at position i
WordAt(m, w, i, ci) ==
  /\ i >= 1
  /\ i + Len(w) - 1 <= Len(Chars(m))
  /\ \A k \in 1..Len(w) : CharAt(m, i + k - 1, ci) = w[k]

\* m[i..j] is a non-empty run of white space (the pattern \s+)
SpacesBetween(m, i, j) ==
  /\ i <= j
  /\ \A k \in i..j : IsSpace(Chars(m)[k])

\* /503/ and /429/ : a literal, case-sensitive
TestLiteral(m, w) ==
  \E i \in 1..Len(Chars(m)) : WordAt(m, w, i, FALSE)

\* /unavailable/i : a literal, ignoring case
TestLiteralI(m, w) ==
  \E i \in 1..Len(Chars(m)) : WordAt(m, w, i, TRUE)

\* /a\s+b/i for a sequence ws of literal words: the words in order, each pair
\* separated by a non-empty run of white space, ignoring case
RECURSIVE WordsFrom(_, _, _)
WordsFrom(m, ws, i) ==
  /\ WordAt(m, Head(ws), i, TRUE)
  /\ \/ Tail(ws) = <<>>
     \/ /\ Tail(ws) # <<>>
        /\ \E k \in (i + Len(Head(ws)))..Len(Chars(m)) :
             /\ SpacesBetween(m, i + Len(Head(ws)), k)
             /\ WordsFrom(m, Tail(ws), k + 1)

TestWordsI(m, ws) ==
  \E i \in 1..Len(Chars(m)) : WordsFrom(m, ws, i)

\* String.prototype.trim().length > 0
TrimNonEmpty(m) ==
  \E i \in 1..Len(Chars(m)) : ~IsSpace(Chars(m)[i])

\* --------------------------------------------------- geminiService: errors
DefaultMessage == "An unexpected error occurred while contacting the Gemini service."
OverloadedMessage == "Gemini is currently overloaded. Please try again in a few moments."
RateLimitMessage == "Gemini rate limit reached. Wait a bit and try again."
LandmarkNotFoundMessage == "Could not identify a landmark in the photo."
NoAudioMessage == "Failed to generate audio narration."
UnknownErrorMessage == "An unknown error occurred."
ApiKeyMessage ==
  "GEMINI_API_KEY environment variable is not set. Please create a .env.local file with your API key."
TrimTypeErrorMessage == "Cannot read properties of undefined (reading 'trim')"

\* a ?? b
Coalesce(a, b) == IF a = Undefined THEN b ELSE a

\* extractErrorMessage without the trim().length > 0 test
extractErrorMessage_NoTrimTest(e) ==
  IF e.isError /\ e.message # ""
  THEN e.message
  ELSE LET possibleMessage ==
             Coalesce(e.message, Coalesce(e.errorMessage, e.statusMessage))
       IN IF /\ e.isObject
             /\ possibleMessage # Undefined
          THEN possibleMessage
          ELSE DefaultMessage

extractErrorMessage(e) ==
  IF e.isError /\ e.message # ""
  THEN e.message
  ELSE LET possibleMessage ==
             Coalesce(e.message, Coalesce(e.errorMessage, e.statusMessage))
       IN IF /\ e.isObject
             /\ possibleMessage # Undefined
             /\ TrimNonEmpty(possibleMessage)
          THEN possibleMessage
          ELSE DefaultMessage

\* normalizeGeminiError without its two pattern tests: the extracted message
\* is rethrown as it came
normalizeGeminiError_Raw(e) == extractErrorMessage(e)

\* normalizeGeminiError with its two tests in the other order
normalizeGeminiError_RateLimitFirst(e) ==
  LET message == extractErrorMessage(e)
  IN IF \/ TestWordsI(message, <<<<"r", "a", "t", "e">>, <<"l", "i", "m", "i", "t">>>>)
        \/ TestLiteral(message, <<"4", "2", "9">>)
     THEN RateLimitMessage
     ELSE IF \/ TestWordsI(message, <<<<"m", "o", "d", "e", "l">>, <<"i", "s">>,
                                      <<"o", "v", "e", "r", "l", "o", "a", "d", "e", "d">>>>)
             \/ TestLiteralI(message, <<"u", "n", "a", "v", "a", "i", "l", "a", "b", "l", "e">>)
             \/ TestLiteral(message, <<"5", "0", "3">>)
          THEN OverloadedMessage
          ELSE message

\* the message of the Error that normalizeGeminiError throws
normalizeGeminiError(e) ==
  LET message == extractErrorMessage(e)
  IN IF \/ TestWordsI(message, <<<<"m", "o", "d", "e", "l">>, <<"i", "s">>,
                                 <<"o", "v", "e", "r", "l", "o", "a", "d", "e", "d">>>>)
        \/ TestLiteralI(message, <<"u", "n", "a", "v", "a", "i", "l", "a", "b", "l", "e">>)
        \/ TestLiteral(message, <<"5", "0", "3">>)
     THEN OverloadedMessage
     ELSE IF \/ TestWordsI(message, <<<<"r", "a", "t", "e">>, <<"l", "i", "m", "i", "t">>>>)
             \/ TestLiteral(message, <<"4", "2", "9">>)
          THEN RateLimitMessage
          ELSE message

\* normalizeGeminiError tabulated over the rejections, so that the patterns
\* are matched once per rejection and not once per step
NormalizedTable ==
  {<<e, normalizeGeminiError(e)>> : e \in RawErrors \cup {ApiKeyError}}

NormalizedMessage(e) == (CHOOSE p \in NormalizedTable : p[1] = e)[2]

\* ----------------------------------------------- geminiService: operations
\* the outcome of ai.models.generateContent: a response or a rejection
Resolved(r) == [ok |-> TRUE, response |-> r, reason |-> Undefined]
Rejected(e) == [ok |-> FALSE, response |-> Undefined, reason |-> e]

\* what the remote answers to the identification prompt for an image: the
\* landmark of the picture (possibly padded with white space), "Unknown", or
\* a response without text
IdentifyTexts(imageBase64) ==
  {IF imageBase64 = "base64:a.jpg"
   THEN "Eiffel Tower, Paris, France"
   ELSE " Colosseum, Rome, Italy\n",
   "Unknown", " unknown ", Undefined}

\* the markdown the remote writes about a landmark
HistoryText(name) == "## History\n* " \o name

GroundingChunks == {<<>>, <<[web |-> [uri |-> "https://x", title |-> "X"]]>>}

\* the base64 PCM the remote synthesises for a text
AudioPayload(text) ==
  IF text = HistoryText("Eiffel Tower, Paris, France") THEN "AAABAA==" ELSE "/38AgA=="

IdentifyOutcomes(imageBase64) ==
  {Resolved([text |-> x]) : x \in IdentifyTexts(imageBase64)}
  \cup {Rejected(e) : e \in TransportErrors}

HistoryOutcomes(name) ==
  {Resolved([text |-> HistoryText(name), groundingMetadata |-> TRUE,
             groundingChunks |-> c]) : c \in GroundingChunks}
  \cup {Resolved([text |-> HistoryText(name), groundingMetadata |-> FALSE,
                  groundingChunks |-> <<>>])}
  \cup {Rejected(e) : e \in TransportErrors}

NarrationOutcomes(text) ==
  {Resolved([data |-> d]) : d \in {AudioPayload(text), "", Undefined}}
  \cup {Rejected(e) : e \in TransportErrors}

\* how an async operation settles: its value, or the message of the Error thrown
Return(v) == [ok |-> TRUE, value |-> v, message |-> Undefined]
Throw(m) == [ok |-> FALSE, value |-> Undefined, message |-> m]

\* String.prototype.trim on the identification texts
Trim(x) ==
  CASE x = " Colosseum, Rome, Italy\n" -> "Colosseum, Rome, Italy"
    [] x = " unknown " -> "unknown"
    [] OTHER -> x

\* String.prototype.toLowerCase on the trimmed identification texts
ToLowerCase(x) ==
  CASE x = "Unknown" -> "unknown"
    [] x = "Eiffel Tower, Paris, France" -> "eiffel tower, paris, france"
    [] x = "Colosseum, Rome, Italy" -> "colosseum, rome, italy"
    [] OTHER -> x

\* identifyLandmark comparing the trimmed text with 'unknown' as it is written
identifyLandmark_CaseSensitive(o) ==
  IF ~o.ok THEN Throw(NormalizedMessage(o.reason))
  ELSE IF o.response.text = Undefined THEN Throw(TrimTypeErrorMessage)
  ELSE LET text == Trim(o.response.text)
       IN IF text = "unknown"
          THEN Throw(LandmarkNotFoundMessage)
          ELSE Return(text)

identifyLandmark(o) ==
  IF ~o.ok THEN Throw(NormalizedMessage(o.reason))
  ELSE IF o.response.text = Undefined THEN Throw(TrimTypeErrorMessage)
  ELSE LET text == Trim(o.response.text)
       IN IF ToLowerCase(text) = "unknown"
          THEN Throw(LandmarkNotFoundMessage)
          ELSE Return(text)

fetchLandmarkHistory(o) ==
  IF ~o.ok THEN Throw(NormalizedMessage(o.reason))
  ELSE LET sources == IF o.response.groundingMetadata
                      THEN o.response.groundingChunks
                      ELSE <<>>
       IN Return([text |-> o.response.text, sources |-> sources])

\* generateNarration without the test of base64Audio
generateNarration_Unchecked(o) ==
  IF ~o.ok THEN Throw(NormalizedMessage(o.reason))
  ELSE Return(o.response.data)

generateNarration(o) ==
  IF ~o.ok THEN Throw(NormalizedMessage(o.reason))
  ELSE LET base64Audio == o.response.data
       IN IF base64Audio = Undefined \/ base64Audio = ""
          THEN Throw(NoAudioMessage)
          ELSE Return(base64Audio)

\* ------------------------------------------------------------------- state
\* app:      the useState cells of App: status, error, imageFile, imageUrl,
\*           landmarkName, landmarkInfo, groundingSources, audioData
\* tasks:    one entry per handleImageSelect invocation: its locals, the
\*           await it is suspended at, and the operations it has invoked
\* inflight: the promises not yet settled: [task, op, arg]
\* call:     one call of a geminiService operation taken on its own: the
\*           operation, its argument, what generateContent settles with, and
\*           (once it has settled) how the operation settles
\* hook:     one useAudioPlayback instance: whether its component is
\*           mounted, the audioData it was last rendered with, its useState
\*           cells and useRef cells, and whether its last effect returned a
\*           cleanup function
\* webAudio: the Web Audio objects the instance has created: the state of
\*           each AudioContext, each AudioBufferSourceNode (its context, its
\*           buffer, whether it plays, whether its ended event is queued),
\*           and the decodeAudioData promises not yet settled
\* service:  the geminiService module: the keys of process.env it was built
\*           with, its variable ai (the client is named by its key), how
\*           many clients it has constructed and how many operations were
\*           called
VARIABLES app, tasks, inflight, call, service, hook, webAudio

vars == <<app, tasks, inflight, call, service, hook, webAudio>>

appVars == <<app, tasks, inflight>>
serviceVars == <<call, service>>
engineVars == <<hook, webAudio>>

status == app.status
error == app.error
imageFile == app.imageFile
imageUrl == app.imageUrl
landmarkName == app.landmarkName
landmarkInfo == app.landmarkInfo
groundingSources == app.groundingSources
audioData == app.audioData

\* URL.createObjectURL(file)
createObjectURL(file) == "blob:" \o file

\* the base64 text fileToBase64 resolves with
Base64Of(file) == "base64:" \o file

\* ----------------------------------------------------------- App: the view
isProcessing == status # Idle /\ status # Done /\ status # Error
showUploader == status = Idle
showError == status = Error
showResult == ~showUploader /\ ~showError /\ imageUrl # ""

\* ---------------------------------------------------------- App: resetState
\* resetState without setGroundingSources([])
resetState_KeepsSources(s) ==
  [s EXCEPT !.status = Idle, !.error = Null, !.imageFile = Null, !.imageUrl = "",
            !.landmarkName = "", !.landmarkInfo = "", !.audioData = ""]

\* resetState without setAudioData('')
resetState_KeepsAudio(s) ==
  [s EXCEPT !.status = Idle, !.error = Null, !.imageFile = Null, !.imageUrl = "",
            !.landmarkName = "", !.landmarkInfo = "", !.groundingSources = <<>>]

resetState(s) ==
  [s EXCEPT !.status = Idle,
            !.error = Null,
            !.imageFile = Null,
            !.imageUrl = "",
            !.landmarkName = "",
            !.landmarkInfo = "",
            !.groundingSources = <<>>,
            !.audioData = ""]

\* no operation is being looked at on its own
NoCall == [op |-> "none", arg |-> Undefined, outcome |-> Undefined, settled |-> <<>>]

\* the geminiService module as loaded: line 5
Loaded(env) == [env |-> env, ai |-> Null, constructed |-> 0, calls |-> 0]

\* the module where its client is not followed
NoService == service = Loaded([API_KEY |-> Undefined, GEMINI_API_KEY |-> Undefined])

\* App as mounted: the useState initial values, nothing submitted yet
AppInit ==
  /\ app = [status |-> Idle, error |-> Null, imageFile |-> Null, imageUrl |-> "",
            landmarkName |-> "", landmarkInfo |-> "", groundingSources |-> <<>>,
            audioData |-> ""]
  /\ tasks = <<>>
  /\ inflight = {}

\* a useAudioPlayback instance that is not mounted: it has no cells
Unmounted ==
  [mounted |-> FALSE, audioData |-> "", isPlaying |-> FALSE,
   isAudioReady |-> FALSE, audioContextRef |-> 0,
   audioBufferRef |-> Null, sourceRef |-> 0, cleanup |-> FALSE]

\* no useAudioPlayback instance is being looked at on its own
NoEngine ==
  /\ hook = Unmounted
  /\ webAudio = [contexts |-> <<>>, sources |-> <<>>, decodes |-> {}]

Init ==
  /\ AppInit
  /\ call = NoCall
  /\ NoService
  /\ NoEngine

\* the reset button of the result view, or "Try Again" of the error view:
\* what it does to App
ResetStep ==
  /\ showError \/ showResult
  /\ app' = resetState(app)
  /\ UNCHANGED <<tasks, inflight>>

\* App on its own: no operation and no playback hook is looked at
Reset == ResetStep /\ UNCHANGED <<serviceVars, engineVars>>

\* ---------------------------------------------------- App: handleImageSelect
\* fetchLandmarkHistory called with the landmarkName state of the closure
\* instead of the local identifiedName
Promise_FromState(t, op, arg) ==
  [task |-> t, op |-> op,
   arg |-> IF op = "fetchLandmarkHistory" THEN landmarkName ELSE arg]

Promise(t, op, arg) == [task |-> t, op |-> op, arg |-> arg]

\* the invocation calls op(arg) and suspends at the await of its promise
Await(t, op, arg) ==
  [tasks EXCEPT ![t].pc = op, ![t].invoked = Append(@, op)]

\* a catch block that falls back to the uploader: setStatus(Idle)
Catch_ToIdle(s, isError, message) ==
  [s EXCEPT !.error = IF isError THEN message ELSE UnknownErrorMessage,
            !.status = Idle]

\* a catch block that clears the request before it reports the error
Catch_Discards(s, isError, message) ==
  [s EXCEPT !.error = IF isError THEN message ELSE UnknownErrorMessage,
            !.status = Error,
            !.imageFile = Null, !.imageUrl = "", !.landmarkName = "",
            !.landmarkInfo = "", !.groundingSources = <<>>, !.audioData = ""]

\* the invocation has left handleImageSelect (at = "returned" or "caught"):
\* its locals are gone, what it has invoked is kept
Leave(t, at) ==
  [tasks EXCEPT ![t] = [file |-> Undefined, pc |-> at, invoked |-> tasks[t].invoked,
                        imageBase64 |-> Undefined, identifiedName |-> Undefined,
                        historyText |-> Undefined]]

\* the catch block: setError, setStatus(Error); e is an Error here unless
\* fileToBase64 rejected with something else
Catch(s, isError, message) ==
  [s EXCEPT !.error = IF isError THEN message ELSE UnknownErrorMessage,
            !.status = Error]

\* handleImageSelect without setImageUrl(URL.createObjectURL(file))
HandleImageSelect_NoUrl(file) ==
  /\ showUploader
  /\ ~isProcessing
  /\ Len(tasks) < MaxRequests
  /\ app' = [resetState(app) EXCEPT !.imageFile = file,
                                    !.status = Identifying]
  /\ tasks' = Append(tasks, [file |-> file, pc |-> "fileToBase64",
                             invoked |-> <<"fileToBase64">>,
                             imageBase64 |-> Undefined,
                             identifiedName |-> Undefined,
                             historyText |-> Undefined])
  /\ inflight' = inflight \cup {Promise(Len(tasks) + 1, "fileToBase64", file)}
  /\ UNCHANGED <<serviceVars, engineVars>>

\* the uploader's file input or drop zone hands a file to handleImageSelect:
\* lines 31-37, up to the first await
HandleImageSelectStep(file) ==
  /\ showUploader
  /\ ~isProcessing
  /\ Len(tasks) < MaxRequests
  /\ app' = [resetState(app) EXCEPT !.imageFile = file,
                                    !.imageUrl = createObjectURL(file),
                                    !.status = Identifying]
  /\ tasks' = Append(tasks, [file |-> file, pc |-> "fileToBase64",
                             invoked |-> <<"fileToBase64">>,
                             imageBase64 |-> Undefined,
                             identifiedName |-> Undefined,
                             historyText |-> Undefined])
  /\ inflight' = inflight \cup {Promise(Len(tasks) + 1, "fileToBase64", file)}

HandleImageSelect(file) ==
  HandleImageSelectStep(file) /\ UNCHANGED <<serviceVars, engineVars>>

\* fileToBase64 resolves: line 37, then the call of identifyLandmark, line 40
FileToBase64ResolvedStep(p) ==
  /\ p \in inflight
  /\ p.op = "fileToBase64"
  /\ LET imageBase64 == Base64Of(p.arg)
     IN /\ tasks' = [Await(p.task, "identifyLandmark", imageBase64)
                       EXCEPT ![p.task].imageBase64 = imageBase64]
        /\ inflight' = (inflight \ {p})
                         \cup {Promise(p.task, "identifyLandmark", imageBase64)}
  /\ UNCHANGED app

FileToBase64Resolved(p) ==
  FileToBase64ResolvedStep(p) /\ UNCHANGED <<serviceVars, engineVars>>

\* an awaited promise rejects: the catch block, lines 54-58
Caught(p, isError, message) ==
  /\ app' = Catch(app, isError, message)
  /\ tasks' = Leave(p.task, "caught")
  /\ inflight' = inflight \ {p}

FileToBase64RejectedStep(p, e) ==
  /\ p \in inflight
  /\ p.op = "fileToBase64"
  /\ Caught(p, e.isError, e.message)

FileToBase64Rejected(p, e) ==
  FileToBase64RejectedStep(p, e) /\ UNCHANGED <<serviceVars, engineVars>>

\* identifyLandmark settles: lines 40-45
IdentifySettledStep(p, o) ==
  /\ p \in inflight
  /\ p.op = "identifyLandmark"
  /\ LET r == identifyLandmark(o)
     IN IF r.ok
        THEN LET identifiedName == r.value
             IN /\ app' = [app EXCEPT !.landmarkName = identifiedName,
                                      !.status = Fetching]
                /\ tasks' = [Await(p.task, "fetchLandmarkHistory", identifiedName)
                               EXCEPT ![p.task].identifiedName = identifiedName]
                /\ inflight' = (inflight \ {p})
                     \cup {Promise(p.task, "fetchLandmarkHistory", identifiedName)}
        ELSE Caught(p, TRUE, r.message)

IdentifySettled(p) ==
  \E o \in IdentifyOutcomes(p.arg) :
    IdentifySettledStep(p, o) /\ UNCHANGED <<serviceVars, engineVars>>

\* fetchLandmarkHistory settles: lines 45-51
HistorySettledStep(p, o) ==
  /\ p \in inflight
  /\ p.op = "fetchLandmarkHistory"
  /\ LET r == fetchLandmarkHistory(o)
     IN IF r.ok
        THEN LET historyText == r.value.text
                 sources == r.value.sources
             IN /\ app' = [app EXCEPT !.landmarkInfo = historyText,
                                      !.groundingSources = sources,
                                      !.status = Narrating]
                /\ tasks' = [Await(p.task, "generateNarration", historyText)
                               EXCEPT ![p.task].historyText = historyText]
                /\ inflight' = (inflight \ {p})
                     \cup {Promise(p.task, "generateNarration", historyText)}
        ELSE Caught(p, TRUE, r.message)

HistorySettled(p) ==
  \E o \in HistoryOutcomes(p.arg) :
    HistorySettledStep(p, o) /\ UNCHANGED <<serviceVars, engineVars>>

\* the continuation of generateNarration without setStatus(Status.Done)
NarrationSettledStep_NoDone(p, o) ==
  /\ p \in inflight
  /\ p.op = "generateNarration"
  /\ LET r == generateNarration(o)
     IN IF r.ok
        THEN LET narratedAudio == r.value
             IN /\ app' = [app EXCEPT !.audioData = narratedAudio]
                /\ tasks' = Leave(p.task, "returned")
                /\ inflight' = inflight \ {p}
        ELSE Caught(p, TRUE, r.message)

\* generateNarration settles: lines 51-53
NarrationSettledStep(p, o) ==
  /\ p \in inflight
  /\ p.op = "generateNarration"
  /\ LET r == generateNarration(o)
     IN IF r.ok
        THEN LET narratedAudio == r.value
             IN /\ app' = [app EXCEPT !.audioData = narratedAudio,
                                      !.status = Done]
                /\ tasks' = Leave(p.task, "returned")
                /\ inflight' = inflight \ {p}
        ELSE Caught(p, TRUE, r.message)

NarrationSettled(p) ==
  \E o \in NarrationOutcomes(p.arg) :
    NarrationSettledStep(p, o) /\ UNCHANGED <<serviceVars, engineVars>>

Next ==
  \/ Reset
  \/ \E file \in Files : HandleImageSelect(file)
  \/ \E p \in inflight : FileToBase64Resolved(p)
  \/ \E p \in inflight, e \in FileReaderErrors : FileToBase64Rejected(p, e)
  \/ \E p \in inflight : IdentifySettled(p)
  \/ \E p \in inflight : HistorySettled(p)
  \/ \E p \in inflight : NarrationSettled(p)

Spec == Init /\ [][Next]_vars

\* ------------------------------------ geminiService: one operation at a time
\* the calls the operations are examined with: every argument the
\* orchestrator passes, every response, and every rejection of RawErrors
ServiceCalls ==
  {[op |-> "identifyLandmark", arg |-> Base64Of(f), outcome |-> o, settled |-> <<>>] :
     f \in Files,
     o \in {Resolved([text |-> x]) :
              x \in IdentifyTexts("base64:a.jpg") \cup IdentifyTexts("base64:b.png")}
           \cup {Rejected(e) : e \in RawErrors}}
  \cup
  {[op |-> "fetchLandmarkHistory", arg |-> "Eiffel Tower, Paris, France",
    outcome |-> o, settled |-> <<>>] :
     o \in {x \in HistoryOutcomes("Eiffel Tower, Paris, France") : x.ok}
           \cup {Rejected(e) : e \in RawErrors}}
  \cup
  {[op |-> "generateNarration", arg |-> HistoryText("Eiffel Tower, Paris, France"),
    outcome |-> o, settled |-> <<>>] :
     o \in {x \in NarrationOutcomes(HistoryText("Eiffel Tower, Paris, France")) : x.ok}
           \cup {Rejected(e) : e \in RawErrors}}

ServiceInit ==
  /\ AppInit
  /\ call \in ServiceCalls
  /\ NoService
  /\ NoEngine

\* the awaited generateContent settles and the operation runs to its end
IdentifyLandmarkCall ==
  /\ call.op = "identifyLandmark"
  /\ call.settled = <<>>
  /\ call' = [call EXCEPT !.settled = <<identifyLandmark(call.outcome)>>]
  /\ UNCHANGED <<appVars, engineVars, service>>

FetchLandmarkHistoryCall ==
  /\ call.op = "fetchLandmarkHistory"
  /\ call.settled = <<>>
  /\ call' = [call EXCEPT !.settled = <<fetchLandmarkHistory(call.outcome)>>]
  /\ UNCHANGED <<appVars, engineVars, service>>

GenerateNarrationCall ==
  /\ call.op = "generateNarration"
  /\ call.settled = <<>>
  /\ call' = [call EXCEPT !.settled = <<generateNarration(call.outcome)>>]
  /\ UNCHANGED <<appVars, engineVars, service>>

ServiceNext ==
  \/ IdentifyLandmarkCall
  \/ FetchLandmarkHistoryCall
  \/ GenerateNarrationCall

ServiceSpec == ServiceInit /\ [][ServiceNext]_vars

\* ------------------------------------ geminiService: the client of the module
\* operations called one after the other on one loaded module, in any order

\* the number of operations called on one module
MaxCalls == 3

\* what process.env holds of the two keys: not defined, empty, or a key
Envs ==
  [API_KEY : {Undefined, "", "key-1"}, GEMINI_API_KEY : {Undefined, "", "key-2"}]

\* getAI without the test of ai
getAI_AlwaysNew(s) ==
  LET apiKey == IF s.env.API_KEY \notin {Undefined, ""}
                THEN s.env.API_KEY ELSE s.env.GEMINI_API_KEY
  IN IF apiKey \in {Undefined, ""}
     THEN [ok |-> FALSE, service |-> s]
     ELSE [ok |-> TRUE,
           service |-> [s EXCEPT !.ai = apiKey, !.constructed = @ + 1]]

\* getAI, lines 39-48: whether it returns, and the module after it
getAI(s) ==
  IF s.ai # Null
  THEN [ok |-> TRUE, service |-> s]
  ELSE LET apiKey == IF s.env.API_KEY \notin {Undefined, ""}
                     THEN s.env.API_KEY ELSE s.env.GEMINI_API_KEY
       IN IF apiKey \in {Undefined, ""}
          THEN [ok |-> FALSE, service |-> s]
          ELSE [ok |-> TRUE,
                service |-> [s EXCEPT !.ai = apiKey, !.constructed = @ + 1]]

\* the try block of an operation: getAI() throws into the catch, or
\* generateContent is called on the client and settles with o
Try(g, o) == IF g.ok THEN o ELSE Rejected(ApiKeyError)

\* the calls the module is driven with
ClientCalls ==
  {c \in ServiceCalls : c.outcome.ok \/ c.outcome.reason \in TransportErrors}

ClientInit ==
  /\ AppInit
  /\ NoEngine
  /\ call = NoCall
  /\ \E env \in Envs : service = Loaded(env)

\* one operation is called and settles
Invoke(c) ==
  /\ service.calls < MaxCalls
  /\ LET g == getAI(service)
         o == Try(g, c.outcome)
     IN /\ service' = [g.service EXCEPT !.calls = @ + 1]
        /\ call' = [c EXCEPT !.settled =
                      <<CASE c.op = "identifyLandmark" -> identifyLandmark(o)
                          [] c.op = "fetchLandmarkHistory" -> fetchLandmarkHistory(o)
                          [] c.op = "generateNarration" -> generateNarration(o)>>]
  /\ UNCHANGED <<appVars, engineVars>>

ClientNext ==
  \/ \E c \in ClientCalls : c.op = "identifyLandmark" /\ Invoke(c)
  \/ \E c \in ClientCalls : c.op = "fetchLandmarkHistory" /\ Invoke(c)
  \/ \E c \in ClientCalls : c.op = "generateNarration" /\ Invoke(c)

ClientSpec == ClientInit /\ [][ClientNext]_vars

\* ------------------------------------------------------------ utils: helpers
\* decode and decodeAudioData, as useAudioPlayback calls them on lines 31-32:
\* a base64 text is the sequence of its characters, the bytes are 0..255

\* the longest byte sequence the helpers are examined with
MaxBytes == 4

\* the byte values the sequences are made of: both ends of the range, and
\* the values around the sign bit of a sample's high byte
ByteValues == {0, 1, 127, 128, 255}

Alphabet ==
  <<"A", "B", "C", "D", "E", "F", "G", "H", "I", "J", "K", "L", "M",
    "N", "O", "P", "Q", "R", "S", "T", "U", "V", "W", "X", "Y", "Z",
    "a", "b", "c", "d", "e", "f", "g", "h", "i", "j", "k", "l", "m",
    "n", "o", "p", "q", "r", "s", "t", "u", "v", "w", "x", "y", "z",
    "0", "1", "2", "3", "4", "5", "6", "7", "8", "9", "+", "/">>

Pad == "="

\* the characters of the base64 texts the model names by a string
Base64Chars(d) ==
  CASE d = "" -> <<>>
    [] d = "AAABAA==" -> <<"A", "A", "A", "B", "A", "A", "=", "=">>
    [] d = "/38AgA==" -> <<"/", "3", "8", "A", "g", "A", "=", "=">>
    [] d = "AAAB" -> <<"A", "A", "A", "B">>
    [] d = "AA!=" -> <<"A", "A", "!", "=">>

\* the value of a base64 character, 0 for the padding
SextetOf(c) ==
  IF c = Pad THEN 0 ELSE (CHOOSE i \in 1..64 : Alphabet[i] = c) - 1

\* the encoding the remote applies to the bytes of the audio
RECURSIVE toBase64(_)
toBase64(bytes) ==
  IF Len(bytes) = 0 THEN <<>>
  ELSE LET b1 == bytes[1]
           b2 == IF Len(bytes) > 1 THEN bytes[2] ELSE 0
           b3 == IF Len(bytes) > 2 THEN bytes[3] ELSE 0
           c1 == Alphabet[(b1 \div 4) + 1]
           c2 == Alphabet[(b1 % 4) * 16 + (b2 \div 16) + 1]
           c3 == Alphabet[(b2 % 16) * 4 + (b3 \div 64) + 1]
           c4 == Alphabet[(b3 % 64) + 1]
       IN IF Len(bytes) = 1 THEN <<c1, c2, Pad, Pad>>
          ELSE IF Len(bytes) = 2 THEN <<c1, c2, c3, Pad>>
          ELSE <<c1, c2, c3, c4>> \o toBase64(SubSeq(bytes, 4, Len(bytes)))

\* a text is base64: whole groups of four characters of the alphabet, the
\* last group padded with one or two "="
IsBase64(chars) ==
  /\ Len(chars) % 4 = 0
  /\ \A i \in 1..Len(chars) :
       \/ \E k \in 1..64 : Alphabet[k] = chars[i]
       \/ /\ chars[i] = Pad
          /\ i >= Len(chars) - 1
          /\ chars[Len(chars)] = Pad

\* the bytes of a base64 text
RECURSIVE atob(_)
atob(chars) ==
  IF Len(chars) = 0 THEN <<>>
  ELSE LET n1 == SextetOf(chars[1])
           n2 == SextetOf(chars[2])
           n3 == SextetOf(chars[3])
           n4 == SextetOf(chars[4])
           bytes == <<n1 * 4 + (n2 \div 16),
                      (n2 % 16) * 16 + (n3 \div 4),
                      (n3 % 4) * 64 + n4>>
           group == IF chars[3] = Pad THEN SubSeq(bytes, 1, 1)
                    ELSE IF chars[4] = Pad THEN SubSeq(bytes, 1, 2)
                    ELSE bytes
       IN group \o atob(SubSeq(chars, 5, Len(chars)))

\* decode(base64): the bytes of the text, or an exception
decode(chars) ==
  IF IsBase64(chars) THEN Return(atob(chars)) ELSE Throw("MalformedPayload")

\* samples read high byte first
Int16Array_BigEndian(bytes) ==
  [i \in 1..(Len(bytes) \div 2) |->
     LET u == (256 * bytes[2 * i - 1] + bytes[2 * i]) % 65536
     IN IF u >= 32768 THEN u - 65536 ELSE u]

\* the 16-bit signed little-endian samples of an even number of bytes
Int16Array(bytes) ==
  [i \in 1..(Len(bytes) \div 2) |->
     LET u == (bytes[2 * i - 1] + 256 * bytes[2 * i]) % 65536
     IN IF u >= 32768 THEN u - 65536 ELSE u]

\* decodeAudioData(data, ctx, sampleRate, numChannels): how its promise
\* settles; the amplitude of a frame is its sample / 32768
decodeAudioData(bytes) ==
  IF Len(bytes) % 2 # 0 THEN Throw("MalformedPayload")
  ELSE IF Len(bytes) = 0 THEN Throw("EmptyAudio")
  ELSE Return([length |-> Len(bytes) \div 2, channelData |-> Int16Array(bytes)])

\* the samples of a base64 payload: decode, then the 16-bit view of
\* decodeAudioData
decodeBase64ToPCM(chars) ==
  LET data == decode(chars)
  IN IF ~data.ok THEN data
     ELSE IF Len(data.value) % 2 # 0 THEN Throw("MalformedPayload")
     ELSE Return(Int16Array(data.value))

\* ----------------------------------------- helpers: one payload at a time
\* a byte sequence is encoded as the remote encodes the audio, then decoded
\* as the playback hook decodes it
RECURSIVE ByteSeqs(_)
ByteSeqs(n) ==
  IF n = 0 THEN {<<>>}
  ELSE ByteSeqs(n - 1)
       \cup {Append(s, b) : s \in {x \in ByteSeqs(n - 1) : Len(x) = n - 1},
                            b \in ByteValues}

PcmInit ==
  /\ AppInit
  /\ NoEngine
  /\ NoService
  /\ \E bytes \in ByteSeqs(MaxBytes) :
       call = [op |-> "toBase64", arg |-> bytes, outcome |-> <<>>, settled |-> <<>>]

ToBase64Call ==
  /\ call.op = "toBase64"
  /\ call' = [call EXCEPT !.op = "decodeBase64ToPCM", !.outcome = toBase64(call.arg)]
  /\ UNCHANGED <<appVars, engineVars, service>>

DecodeBase64ToPCMCall ==
  /\ call.op = "decodeBase64ToPCM"
  /\ call.settled = <<>>
  /\ call' = [call EXCEPT !.settled = <<decodeBase64ToPCM(call.outcome)>>]
  /\ UNCHANGED <<appVars, engineVars, service>>

PcmNext ==
  \/ ToBase64Call
  \/ DecodeBase64ToPCMCall

PcmSpec == PcmInit /\ [][PcmNext]_vars

\* ------------------------------------------------- hooks: useAudioPlayback
\* AudioContexts and AudioBufferSourceNodes are named by the order of their
\* creation, 0 standing for a ref that is null; an AudioBuffer is named by
\* the audioData it was decoded from.
\*
\* A render with a new audioData, the cleanup of the previous effect and the
\* new effect are one step; the then / catch of decodeAudioData and the
\* onended of a source are steps of their own, whenever they come.
\*
\* The instance is taken as the hook exports it: the component that uses it
\* may render it with any audioData (the effect itself provides for an
\* audioData that becomes empty again) and may call togglePlayback on any
\* render.

\* the audioData a component can pass: none yet, a narration of App, a
\* payload of three bytes, or a payload that is not base64
AudioDatas == {"", "AAABAA==", "/38AgA==", "AAAB", "AA!="}

\* line 31 returns: decode(audioData) does not throw
Decodes(d) == decode(Base64Chars(d)).ok

\* what becomes of an audioData on lines 31-32: the exception of decode, or
\* how the promise of decodeAudioData settles
DecodeOutcome(d) ==
  IF Decodes(d) THEN decodeAudioData(decode(Base64Chars(d)).value)
  ELSE decode(Base64Chars(d))

isPlaying == hook.isPlaying
isAudioReady == hook.isAudioReady
audioContextRef == hook.audioContextRef
audioBufferRef == hook.audioBufferRef
sourceRef == hook.sourceRef

\* AudioBufferSourceNode.stop(): a playing source stops and its ended event
\* is queued; a source that has stopped or ended stays as it is
Stop(w, i) ==
  IF i # 0 /\ w.sources[i].state = "playing"
  THEN [w EXCEPT !.sources[i].state = "stopped", !.sources[i].ended = TRUE]
  ELSE w

\* AudioContext.close()
Close(w, c) ==
  IF c # 0 THEN [w EXCEPT !.contexts[c] = "closed"] ELSE w

\* the cleanup the last effect returned, if it returned one: lines 42-45
CleanupEffect(h, w) ==
  IF h.cleanup THEN Close(Stop(w, h.sourceRef), h.audioContextRef) ELSE w

\* a cell of the instance is written only while the component is mounted
SetIsPlaying(h, v) == IF h.mounted THEN [h EXCEPT !.isPlaying = v] ELSE h
SetIsAudioReady(h, v) == IF h.mounted THEN [h EXCEPT !.isAudioReady = v] ELSE h
SetAudioBufferRef(h, b) == IF h.mounted THEN [h EXCEPT !.audioBufferRef = b] ELSE h

\* the effect of a render with audioData d, lines 20-46: the hook after it.
\* When decode throws on line 31 the effect throws after it has created its
\* context and before it returns a cleanup: no error boundary is above the
\* component, so React unmounts the tree, and this effect has no cleanup
\* to run.
EffectHook(h, w, d) ==
  IF d = ""
  THEN [SetIsAudioReady(h, FALSE) EXCEPT !.audioData = d, !.cleanup = FALSE]
  ELSE IF ~Decodes(d)
  THEN Unmounted
  ELSE [SetIsAudioReady(h, FALSE) EXCEPT !.audioData = d, !.cleanup = TRUE,
                                         !.audioContextRef = Len(w.contexts) + 1]

\* the effect of a render with audioData d: the Web Audio objects after it
EffectWebAudio(w, d) ==
  IF d = ""
  THEN w
  ELSE IF ~Decodes(d)
  THEN [w EXCEPT !.contexts = Append(@, "running")]
  ELSE [w EXCEPT !.contexts = Append(@, "running"),
                 !.decodes = @ \cup {[audioData |-> d,
                                      context |-> Len(w.contexts) + 1]}]

\* a source is heard: it was started, has neither stopped nor ended, and its
\* context is open
Active(w, i) ==
  /\ w.sources[i].state = "playing"
  /\ w.contexts[w.sources[i].context] = "running"

\* the component mounts with some audioData and its first effect has run
EngineInit ==
  /\ AppInit
  /\ call = NoCall
  /\ NoService
  /\ \E d \in AudioDatas :
       LET h == [Unmounted EXCEPT !.mounted = TRUE]
           w == [contexts |-> <<>>, sources |-> <<>>, decodes |-> {}]
       IN /\ hook = EffectHook(h, w, d)
          /\ webAudio = EffectWebAudio(w, d)

\* the component renders with another audioData: cleanup, then the effect
SetAudioData(d) ==
  /\ hook.mounted
  /\ d # hook.audioData
  /\ d # "" => Len(webAudio.contexts) + Len(webAudio.sources) < MaxObjects
  /\ LET w == CleanupEffect(hook, webAudio)
     IN /\ hook' = EffectHook(hook, w, d)
        /\ webAudio' = EffectWebAudio(w, d)
  /\ UNCHANGED <<appVars, serviceVars>>

\* the component unmounts: the cleanup runs, the cells of the instance are
\* gone; the Web Audio objects and their callbacks are not
Unmount ==
  /\ hook.mounted
  /\ webAudio' = CleanupEffect(hook, webAudio)
  /\ hook' = Unmounted
  /\ UNCHANGED <<appVars, serviceVars>>

\* decodeAudioData(...).then, lines 33-36
DecodeAudioDataResolved(p) ==
  /\ p \in webAudio.decodes
  /\ DecodeOutcome(p.audioData).ok
  /\ hook' = SetIsAudioReady(SetAudioBufferRef(hook, p.audioData), TRUE)
  /\ webAudio' = [webAudio EXCEPT !.decodes = @ \ {p}]
  /\ UNCHANGED <<appVars, serviceVars>>

\* decodeAudioData(...).catch, lines 37-40
DecodeAudioDataRejected(p) ==
  /\ p \in webAudio.decodes
  /\ ~DecodeOutcome(p.audioData).ok
  /\ hook' = SetIsAudioReady(hook, FALSE)
  /\ webAudio' = [webAudio EXCEPT !.decodes = @ \ {p}]
  /\ UNCHANGED <<appVars, serviceVars>>

\* togglePlayback that takes its starting branch whatever isPlaying is
TogglePlayback_AlwaysStart ==
  /\ hook.mounted
  /\ IF audioContextRef = 0 \/ audioBufferRef = Null
     THEN UNCHANGED <<hook, webAudio>>
     ELSE /\ Len(webAudio.contexts) + Len(webAudio.sources) < MaxObjects
          /\ webAudio' = [webAudio EXCEPT !.sources =
                            Append(@, [context |-> audioContextRef,
                                       buffer |-> audioBufferRef,
                                       state |-> "playing", ended |-> FALSE])]
          /\ hook' = SetIsPlaying([hook EXCEPT !.sourceRef =
                                     Len(webAudio.sources) + 1], TRUE)
  /\ UNCHANGED <<appVars, serviceVars>>

\* togglePlayback, lines 48-63, called by the component that uses the hook
TogglePlayback ==
  /\ hook.mounted
  /\ IF audioContextRef = 0 \/ audioBufferRef = Null
     THEN UNCHANGED <<hook, webAudio>>
     ELSE IF isPlaying
          THEN /\ webAudio' = Stop(webAudio, sourceRef)
               /\ hook' = SetIsPlaying(hook, FALSE)
          ELSE /\ Len(webAudio.contexts) + Len(webAudio.sources) < MaxObjects
               /\ webAudio' = [webAudio EXCEPT !.sources =
                                 Append(@, [context |-> audioContextRef,
                                            buffer |-> audioBufferRef,
                                            state |-> "playing", ended |-> FALSE])]
               /\ hook' = SetIsPlaying([hook EXCEPT !.sourceRef =
                                          Len(webAudio.sources) + 1], TRUE)
  /\ UNCHANGED <<appVars, serviceVars>>

\* a source plays its buffer to the end: its ended event is queued
SourceEnded(i) ==
  /\ i \in 1..Len(webAudio.sources)
  /\ Active(webAudio, i)
  /\ webAudio' = [webAudio EXCEPT !.sources[i].state = "ended",
                                  !.sources[i].ended = TRUE]
  /\ UNCHANGED <<hook, appVars, serviceVars>>

\* the ended event of a source is dispatched: source.onended, line 58
Onended(i) ==
  /\ i \in 1..Len(webAudio.sources)
  /\ webAudio.sources[i].ended
  /\ webAudio' = [webAudio EXCEPT !.sources[i].ended = FALSE]
  /\ hook' = SetIsPlaying(hook, FALSE)
  /\ UNCHANGED <<appVars, serviceVars>>

EngineNext ==
  \/ \E d \in AudioDatas : SetAudioData(d)
  \/ Unmount
  \/ \E p \in webAudio.decodes : DecodeAudioDataResolved(p)
  \/ \E p \in webAudio.decodes : DecodeAudioDataRejected(p)
  \/ TogglePlayback
  \/ \E i \in 1..Len(webAudio.sources) : SourceEnded(i)
  \/ \E i \in 1..Len(webAudio.sources) : Onended(i)

EngineSpec == EngineInit /\ [][EngineNext]_vars

\* ---------------------------------------------- App with its AnalysisResult
\* One submission followed to its end, together with the useAudioPlayback
\* instance of the AnalysisResult that App renders while showResult holds.
\* A state change of App, the render it causes and the effects of that
\* render are one step.

\* what the remote can answer a narration request with: the outcomes App is
\* examined with, or data that useAudioPlayback cannot decode
NarrationPayloads(text) ==
  NarrationOutcomes(text) \cup {Resolved([data |-> d]) : d \in {"AAAB", "AA!="}}

\* an effect has thrown: React has removed the whole tree, App included
Crashed == showResult /\ ~hook.mounted

\* App renders with its new state: AnalysisResult is mounted while the
\* result view is shown and passes the audioData of App to the hook
Render ==
  /\ ~Crashed
  /\ UNCHANGED serviceVars
  /\ IF showResult'
     THEN IF ~hook.mounted
          THEN LET h == [Unmounted EXCEPT !.mounted = TRUE]
               IN /\ hook' = EffectHook(h, webAudio, audioData')
                  /\ webAudio' = EffectWebAudio(webAudio, audioData')
          ELSE IF audioData' = hook.audioData
          THEN UNCHANGED engineVars
          ELSE LET w == CleanupEffect(hook, webAudio)
               IN /\ hook' = EffectHook(hook, w, audioData')
                  /\ webAudio' = EffectWebAudio(w, audioData')
     ELSE IF hook.mounted
          THEN /\ webAudio' = CleanupEffect(hook, webAudio)
               /\ hook' = Unmounted
          ELSE UNCHANGED engineVars

\* the play button of AnalysisResult is rendered and not disabled
PlayButtonEnabled ==
  /\ hook.mounted
  /\ landmarkInfo # ""
  /\ isAudioReady
  /\ status # Narrating

\* a promise that handleImageSelect awaits settles
TourSettle ==
  \E p \in inflight :
    \/ FileToBase64ResolvedStep(p) /\ Render
    \/ \E e \in FileReaderErrors : FileToBase64RejectedStep(p, e) /\ Render
    \/ \E o \in IdentifyOutcomes(p.arg) : IdentifySettledStep(p, o) /\ Render
    \/ \E o \in HistoryOutcomes(p.arg) : HistorySettledStep(p, o) /\ Render
    \/ \E o \in NarrationPayloads(p.arg) : NarrationSettledStep(p, o) /\ Render

\* the promise of decodeAudioData settles
TourDecode ==
  \E p \in webAudio.decodes :
    DecodeAudioDataResolved(p) \/ DecodeAudioDataRejected(p)

\* the ended event of a source is delivered
TourEnded ==
  \E i \in 1..Len(webAudio.sources) : Onended(i)

TourNext ==
  \/ ResetStep /\ Render
  \/ \E file \in Files : tasks = <<>> /\ HandleImageSelectStep(file) /\ Render
  \/ TourSettle
  \/ TourDecode
  \/ PlayButtonEnabled /\ TogglePlayback
  \/ \E i \in 1..Len(webAudio.sources) : SourceEnded(i)
  \/ TourEnded

TourSpec == Init /\ [][TourNext]_vars

\* promises settle, and queued events are delivered
FairTourSpec ==
  /\ TourSpec
  /\ WF_vars(TourSettle)
  /\ WF_vars(TourDecode)
  /\ WF_vars(TourEnded)

\* ================================================================ claims

\* the entities a request produces, and the image it was submitted with
Entities == <<landmarkName, landmarkInfo, groundingSources, audioData>>
Image == <<imageFile, imageUrl>>

\* invocation t is the one the displayed request belongs to: it is the latest
\* invocation and resetState has not run since it started (handleImageSelect
\* is the only writer of a non-null imageFile, resetState the only eraser)
IsCurrent(t) == t = Len(tasks) /\ imageFile # Null
IsStale(t) == ~IsCurrent(t)

\* this step is a settlement of a promise invocation t awaits
Settles(t) == tasks'[t].pc # tasks[t].pc

\* this step is the catch block of invocation t
Catches(t) == tasks[t].pc # "caught" /\ tasks'[t].pc = "caught"

\* this step is a user's reset, resp. a user's submission
IsReset == UNCHANGED <<tasks, inflight>> /\ app' # app
IsSubmit == Len(tasks') = Len(tasks) + 1

Rank(s) ==
  CASE s = Idle -> 0 [] s = Identifying -> 1 [] s = Fetching -> 2
    [] s = Narrating -> 3 [] s = Done -> 4 [] s = Error -> 5

\* the state resetState is specified to produce
IdleApp ==
  [status |-> "idle", error |-> Null, imageFile |-> Null, imageUrl |-> "",
   landmarkName |-> "", landmarkInfo |-> "", groundingSources |-> <<>>,
   audioData |-> ""]

\* C1: a settlement that belongs to an invocation whose request was reset
\* changes none of status, error, landmarkName, landmarkInfo,
\* groundingSources, audioData.
C1_StaleSettlementIgnored ==
  [][\A t \in 1..Len(tasks) :
       (IsStale(t) /\ Settles(t)) =>
         UNCHANGED <<status, error, landmarkName, landmarkInfo,
                     groundingSources, audioData>>]_vars

\* C2: apart from resets and submissions, status only moves forwards in the
\* order Idle, Identifying, Fetching, Narrating, Done, or to Error, and never
\* from Idle straight to Fetching, Narrating or Done.
C2_StatusOrder ==
  [][status' # status =>
       \/ IsReset
       \/ IsSubmit
       \/ /\ status # Error
          /\ \/ status' = Error
             \/ /\ Rank(status) < Rank(status')
                /\ ~(status = Idle /\ status' \in {Fetching, Narrating, Done})]_vars

\* C3: a step that takes status from another value to Idle is resetState and
\* nothing else: no invocation moves, and the state is resetState's result.
C3_IdleOnlyByReset ==
  [][(status # Idle /\ status' = Idle) =>
       (UNCHANGED <<tasks, inflight>> /\ app' = resetState(app))]_vars

C3_Witness ==
  /\ status = Idle
  /\ \E t \in 1..Len(tasks) : tasks[t].pc = "caught"
  /\ \E t \in 1..Len(tasks) : tasks[t].pc = "returned"

\* C4: once status is Done or Error, only a reset or a submission changes it.
C4_DoneErrorTerminal ==
  [][(status \in {Done, Error} /\ status' # status) => (IsReset \/ IsSubmit)]_vars

PipelineOrder ==
  <<"fileToBase64", "identifyLandmark", "fetchLandmarkHistory", "generateNarration">>

\* the landmark the remote names for a file, as identifyLandmark returns it
LandmarkOf(file) ==
  IF file = "a.jpg" THEN "Eiffel Tower, Paris, France" ELSE "Colosseum, Rome, Italy"

\* C5: an invocation has at most one promise pending; fetchLandmarkHistory is
\* pending only once identifyLandmark has returned, with the returned name as
\* its argument; generateNarration is pending only once fetchLandmarkHistory
\* has returned, with the returned text as its argument; the operations are
\* invoked in pipeline order, each at most once.
C5_SequentialChained ==
  \A t \in 1..Len(tasks) :
    /\ Cardinality({p \in inflight : p.task = t}) <= 1
    /\ tasks[t].invoked = SubSeq(PipelineOrder, 1, Len(tasks[t].invoked))
    /\ \A p \in inflight :
         p.task = t =>
           /\ p.op = tasks[t].invoked[Len(tasks[t].invoked)]
           /\ p.op = "fetchLandmarkHistory" =>
                /\ tasks[t].identifiedName = LandmarkOf(tasks[t].file)
                /\ p.arg = tasks[t].identifiedName
           /\ p.op = "generateNarration" =>
                /\ tasks[t].identifiedName = LandmarkOf(tasks[t].file)
                /\ tasks[t].historyText = HistoryText(tasks[t].identifiedName)
                /\ p.arg = tasks[t].historyText

C5_Witness ==
  \E p \in inflight :
    /\ p.op = "generateNarration"
    /\ p.arg = HistoryText("Colosseum, Rome, Italy")

\* the messages an operation can fail with, given the rejections it is driven
\* with: the fixed overload and rate-limit texts, an unmatched message
\* unchanged, the default text, and the operation's own validation failure
FailureMessages(op) ==
  IF op = "fileToBase64" THEN {"fetch failed", UnknownErrorMessage}
  ELSE {"Gemini is currently overloaded. Please try again in a few moments.",
        "Gemini rate limit reached. Wait a bit and try again.",
        "fetch failed",
        "An unexpected error occurred while contacting the Gemini service."}
       \cup (IF op = "identifyLandmark"
             THEN {"Could not identify a landmark in the photo.", TrimTypeErrorMessage}
             ELSE IF op = "generateNarration"
                  THEN {"Failed to generate audio narration."}
                  ELSE {})

\* C6: the step in which an operation of invocation t fails sets status to
\* Error and error to the normalized message of the failure (never the raw
\* transport text), leaves no promise of t pending, and t never invokes
\* anything afterwards.
C6_FailureGoesToError ==
  [][\A t \in 1..Len(tasks) :
       /\ Catches(t) =>
            /\ status' = Error
            /\ error' \in FailureMessages(tasks[t].pc)
            /\ ~\E p \in inflight' : p.task = t
            /\ tasks'[t].invoked = tasks[t].invoked
       /\ tasks[t].pc = "caught" =>
            /\ tasks'[t] = tasks[t]
            /\ ~\E p \in inflight' : p.task = t]_vars

C6_Witness ==
  /\ status = Error
  /\ error = OverloadedMessage
  /\ \E t \in 1..Len(tasks) :
       /\ tasks[t].pc = "caught"
       /\ tasks[t].invoked = PipelineOrder

\* C7: resetState applied to any reachable state gives the empty Idle state,
\* applying it twice gives the same, and every reset step (from any status,
\* with or without a pending promise) ends in that state.
C7_ResetIdempotent ==
  /\ [](/\ resetState(app) = IdleApp
        /\ resetState(resetState(app)) = resetState(app))
  /\ [][IsReset => (app' = IdleApp /\ resetState(app') = app')]_vars

C7_Witness ==
  /\ app = IdleApp
  /\ \E p \in inflight : p.op = "fetchLandmarkHistory"

\* C8: audioData is non-empty only if landmarkInfo is, and landmarkInfo is
\* non-empty only if landmarkName is.
C8_PipelineOrderOfEntities ==
  /\ audioData # "" => landmarkInfo # ""
  /\ landmarkInfo # "" => landmarkName # ""

\* C9: in every committed state with status Idle, landmarkName, landmarkInfo,
\* groundingSources, audioData, the image and error are all empty.
C9_IdleIsEmpty ==
  status = Idle =>
    /\ Entities = <<"", "", <<>>, "">>
    /\ Image = <<Null, "">>
    /\ error = Null

C9_Witness ==
  /\ status = Idle
  /\ Len(tasks) = MaxRequests
  /\ \A t \in 1..Len(tasks) : \E p \in inflight : p.task = t

\* C10 as stated: status = Error implies that landmarkName, landmarkInfo,
\* groundingSources, audioData and the image are all empty.
C10_ErrorDiscardsAll ==
  status = Error =>
    /\ Entities = <<"", "", <<>>, "">>
    /\ Image = <<Null, "">>

\* C10 amended: while status is Error only the error view is rendered, so no
\* partial result is shown; the catch block itself discards nothing: the
\* failing step leaves the image and the entities already produced as they
\* were.
C10_ErrorHidesPartialResults ==
  /\ [](status = Error => (showError /\ ~showResult /\ ~showUploader))
  /\ [][\A t \in 1..Len(tasks) :
          Catches(t) => (Entities' = Entities /\ Image' = Image)]_vars

C10_Witness ==
  /\ status = Error
  /\ landmarkName # ""
  /\ landmarkInfo # ""
  /\ imageUrl # ""

\* C11: in every reachable state exactly the view of the status is rendered:
\* the uploader when status is Idle, the error display when it is Error, the
\* result view when it is Identifying, Fetching, Narrating or Done.
C11_ViewByStatusAlone ==
  /\ showUploader <=> status = Idle
  /\ showError <=> status = Error
  /\ showResult <=> status \in {Identifying, Fetching, Narrating, Done}

\* C12: the step of a submission ends with status Identifying, error null,
\* the image of the submitted file, and landmarkName, landmarkInfo,
\* groundingSources and audioData empty; the new invocation is suspended at
\* its first await.
C12_SubmitResetsFirst ==
  [][IsSubmit =>
       LET t == Len(tasks')
       IN /\ tasks'[t].pc = "fileToBase64"
          /\ tasks'[t].file \in Files
          /\ status' = Identifying
          /\ error' = Null
          /\ Image' = <<tasks'[t].file, createObjectURL(tasks'[t].file)>>
          /\ Entities' = <<"", "", <<>>, "">>]_vars

\* a second submission right after it was made, the first request having
\* run to Done before it was reset
C12_Witness ==
  /\ Len(tasks) = 2
  /\ tasks[1].pc = "returned"
  /\ tasks[2].pc = "fileToBase64"
  /\ status = Identifying
  /\ imageFile = tasks[2].file

\* a service call whose generateContent rejected has settled
RejectedCallSettled == call.op # "none" /\ call.settled # <<>> /\ ~call.outcome.ok

\* the message texts of RawMessages that contain: the word "overloaded";
\* "model is overloaded"; "unavailable" or 503; "rate limit" or 429
ContainsOverloaded == {"The Model is  overloaded", "Server overloaded"}
ContainsModelIsOverloaded == {"The Model is  overloaded"}
ContainsUnavailableOr503 ==
  {"503 Service Unavailable", "UNAVAILABLE", "429: service unavailable"}
ContainsRateLimitOr429 == {"Rate limit exceeded", "HTTP 429", "429: service unavailable"}

\* the text a rejection carries: the message of an Error; for another object
\* the first of message, error.message, error.statusMessage that is defined;
\* the default text when there is none or it is blank
TextOf(e) ==
  IF e.isError /\ e.message # "" THEN e.message
  ELSE LET first == IF e.message # Undefined THEN e.message
                    ELSE IF e.errorMessage # Undefined THEN e.errorMessage
                    ELSE e.statusMessage
       IN IF ~e.isObject \/ first \in {Undefined, "", "  "}
          THEN "An unexpected error occurred while contacting the Gemini service."
          ELSE first

\* C13 as stated: a rejection whose text contains "overloaded", "unavailable"
\* or 503 fails with the overload error; otherwise one whose text contains
\* "rate limit" or 429 fails with the rate-limit error.
C13_OverloadedIsOverload ==
  RejectedCallSettled =>
    LET m == TextOf(call.outcome.reason)
        thrown == call.settled[1]
    IN /\ m \in ContainsOverloaded \cup ContainsUnavailableOr503 =>
            (~thrown.ok /\ thrown.message = OverloadedMessage)
       /\ (m \notin ContainsOverloaded \cup ContainsUnavailableOr503
           /\ m \in ContainsRateLimitOr429) =>
            (~thrown.ok /\ thrown.message = RateLimitMessage)

\* C13 amended: a rejection whose text contains "model is overloaded",
\* "unavailable" or 503 fails with the overload error, also when it contains
\* "rate limit" or 429 as well; otherwise one whose text contains
\* "rate limit" or 429 fails with the rate-limit error; a text that contains
\* "overloaded" without "model is" and matches nothing else is in neither
\* class and is re-raised as it is.
C13_FirstMatchWins ==
  RejectedCallSettled =>
    LET m == TextOf(call.outcome.reason)
        thrown == call.settled[1]
    IN /\ ~thrown.ok
       /\ m \in ContainsModelIsOverloaded \cup ContainsUnavailableOr503 =>
            thrown.message = OverloadedMessage
       /\ (m \notin ContainsModelIsOverloaded \cup ContainsUnavailableOr503
           /\ m \in ContainsRateLimitOr429) =>
            thrown.message = RateLimitMessage
       /\ m = "Server overloaded" => thrown.message = "Server overloaded"

\* a rejection that matches an overload pattern and a rate-limit pattern has
\* failed with the overload error
C13_Witness ==
  /\ RejectedCallSettled
  /\ call.outcome.reason.message = "429: service unavailable"
  /\ call.settled[1].message = OverloadedMessage

\* C14 as stated: a rejected call fails with an Error that carries a message
\* text, and when the message of the rejection matches neither class that
\* text is the message of the rejection, unchanged.
C14_UnmatchedKeepsMessage ==
  RejectedCallSettled =>
    LET e == call.outcome.reason
        thrown == call.settled[1]
    IN /\ ~thrown.ok
       /\ thrown.message # Undefined
       /\ (/\ e.message # Undefined
           /\ e.message \notin ContainsModelIsOverloaded \cup ContainsUnavailableOr503
                                  \cup ContainsRateLimitOr429) =>
            thrown.message = e.message

\* C14 amended: a rejected call fails with an Error that carries a message
\* text and no value; when the text of the rejection matches neither class
\* the message is that text unchanged, where a rejection without a text (no
\* object, no message field, or an empty or blank one) has the default text
\* "An unexpected error occurred while contacting the Gemini service.".
C14_UnmatchedKeepsText ==
  RejectedCallSettled =>
    LET e == call.outcome.reason
        thrown == call.settled[1]
    IN /\ ~thrown.ok
       /\ thrown.value = Undefined
       /\ thrown.message # Undefined
       /\ TextOf(e) \notin ContainsModelIsOverloaded \cup ContainsUnavailableOr503
                              \cup ContainsRateLimitOr429 =>
            thrown.message = TextOf(e)
       /\ (e.isError /\ e.message = "") => thrown.message = DefaultMessage

\* generateNarration has failed with the unmatched text of its rejection
C14_Witness ==
  /\ RejectedCallSettled
  /\ call.op = "generateNarration"
  /\ call.outcome.reason.message = "fetch failed"
  /\ call.settled[1].message = "fetch failed"

\* C15: identifyLandmark fails with "Could not identify a landmark in the
\* photo." when the response text is "Unknown" (in any letter case, trimmed);
\* the step in which identifyLandmark fails for invocation t sets status
\* Error with the message of the failure, does not write landmarkName, and t
\* has invoked, and will ever invoke, fileToBase64 and identifyLandmark only.
C15_UnknownLandmark ==
  /\ [](\A x \in {"Unknown", " unknown "} :
          identifyLandmark(Resolved([text |-> x]))
            = Throw("Could not identify a landmark in the photo."))
  /\ [][\A t \in 1..Len(tasks) :
          /\ (Catches(t) /\ tasks[t].pc = "identifyLandmark") =>
               /\ status' = Error
               /\ error' \in FailureMessages("identifyLandmark")
               /\ landmarkName' = landmarkName
               /\ tasks'[t].invoked = <<"fileToBase64", "identifyLandmark">>
               /\ ~\E p \in inflight' : p.task = t
          /\ (tasks[t].pc = "caught" /\ Len(tasks[t].invoked) = 2) =>
               tasks'[t] = tasks[t]]_vars

\* the only request made has failed at identifyLandmark for want of a landmark
C15_Witness ==
  /\ Len(tasks) = 1
  /\ tasks[1].pc = "caught"
  /\ tasks[1].invoked = <<"fileToBase64", "identifyLandmark">>
  /\ status = Error
  /\ error = LandmarkNotFoundMessage
  /\ landmarkName = ""

\* C16: generateNarration fails with "Failed to generate audio narration."
\* when the response carries no audio payload (none, or an empty one); the
\* step in which generateNarration fails for invocation t sets status Error
\* with the message of the failure and does not write audioData, and t never
\* reaches its setStatus(Done) afterwards.
C16_NoAudioProduced ==
  /\ [](\A d \in {Undefined, ""} :
          generateNarration(Resolved([data |-> d]))
            = Throw("Failed to generate audio narration."))
  /\ [][\A t \in 1..Len(tasks) :
          /\ (Catches(t) /\ tasks[t].pc = "generateNarration") =>
               /\ status' = Error
               /\ error' \in FailureMessages("generateNarration")
               /\ audioData' = audioData
               /\ ~\E p \in inflight' : p.task = t
          /\ tasks[t].pc = "caught" => tasks'[t].pc = "caught"]_vars

\* the only request made has failed at generateNarration for want of audio
C16_Witness ==
  /\ Len(tasks) = 1
  /\ tasks[1].pc = "caught"
  /\ tasks[1].invoked = PipelineOrder
  /\ status = Error
  /\ error = NoAudioMessage
  /\ audioData = ""
  /\ landmarkInfo # ""

\* the sources of the instance that are heard
ActiveHandles == {i \in 1..Len(webAudio.sources) : Active(webAudio, i)}

\* C17: in every reachable state of a useAudioPlayback instance at most one
\* started source has neither stopped nor ended.
C17_AtMostOneActiveHandle == Cardinality(ActiveHandles) <= 1

\* this step is the dispatch of the ended event of source i
IsOnended(i) ==
  /\ i \in 1..Len(webAudio.sources)
  /\ webAudio.sources[i].ended
  /\ ~webAudio'.sources[i].ended

\* this step is a call of togglePlayback that got past its guard: it has
\* created a source, or it has cleared isPlaying and is no ended event
IsToggle ==
  /\ hook.mounted /\ hook'.mounted
  /\ \/ Len(webAudio'.sources) > Len(webAudio.sources)
     \/ /\ isPlaying /\ ~isPlaying'
        /\ ~\E i \in 1..Len(webAudio.sources) : IsOnended(i)

\* C18: a call of togglePlayback while isAudioReady is false changes nothing:
\* no source is created or started, isPlaying and isAudioReady stay as they
\* are.
C18_ToggleNoOpWhenNotReady ==
  [][~isAudioReady => ~IsToggle]_vars

\* C19: a call of togglePlayback while isAudioReady is true and isPlaying is
\* false creates one source on the context of audioContextRef with the buffer
\* of audioBufferRef, starts it, keeps it in sourceRef and sets isPlaying; a
\* call while isAudioReady and isPlaying are true stops the source of
\* sourceRef, creates none and clears isPlaying; either way isAudioReady,
\* audioBufferRef and audioContextRef stay as they are.
C19_ToggleStartsAndStops ==
  [][(IsToggle /\ isAudioReady) =>
       /\ audioContextRef # 0 /\ audioBufferRef # Null
       /\ UNCHANGED <<isAudioReady, audioBufferRef, audioContextRef>>
       /\ webAudio'.contexts = webAudio.contexts
       /\ ~isPlaying =>
            /\ webAudio'.sources =
                 Append(webAudio.sources,
                        [context |-> audioContextRef, buffer |-> audioBufferRef,
                         state |-> "playing", ended |-> FALSE])
            /\ sourceRef' = Len(webAudio'.sources)
            /\ isPlaying'
       /\ isPlaying =>
            /\ sourceRef # 0 /\ sourceRef' = sourceRef
            /\ Len(webAudio'.sources) = Len(webAudio.sources)
            /\ webAudio'.sources[sourceRef].state # "playing"
            /\ \A i \in 1..Len(webAudio.sources) :
                 i # sourceRef => webAudio'.sources[i] = webAudio.sources[i]
            /\ ~isPlaying']_vars

\* togglePlayback has just stopped the source it had started
C19_Witness ==
  /\ hook.mounted
  /\ isAudioReady
  /\ ~isPlaying
  /\ sourceRef # 0
  /\ webAudio.sources[sourceRef].state = "stopped"
  /\ webAudio.sources[sourceRef].ended

\* C20: the ended event of the source that is playing clears isPlaying, and
\* the ended event of another source, one that stopped or ended earlier,
\* leaves isPlaying set while the source of sourceRef is playing.
C20_EndedClearsOncePerPlayback ==
  [][\A i \in 1..Len(webAudio.sources) :
       (IsOnended(i) /\ hook.mounted) =>
         /\ i = sourceRef => ~isPlaying'
         /\ (i # sourceRef /\ isPlaying /\ Active(webAudio, sourceRef)) =>
              isPlaying']_vars

\* the contexts that are open
OpenContexts == {c \in 1..Len(webAudio.contexts) : webAudio.contexts[c] = "running"}

\* the step is a render of the mounted component with another audioData d,
\* one that is not empty
IsNewAudioData ==
  /\ hook.mounted
  /\ hook'.mounted
  /\ hook'.audioData # hook.audioData
  /\ hook'.audioData # ""

\* C21: at most one output context is open in every state, and a render
\* with a new audioData leaves no handle active, the context of the
\* previous audioData closed and no decoded buffer held while the new
\* audioData loads.
C21_StopReleaseDiscardBeforeLoad ==
  /\ [](Cardinality(OpenContexts) <= 1)
  /\ [][IsNewAudioData =>
          /\ ActiveHandles' = {}
          /\ OpenContexts' = {audioContextRef'}
          /\ audioContextRef' # audioContextRef
          /\ audioBufferRef' = Null]_vars

\* the decode promise p was started by an effect that is no longer the
\* current one: the audioData has changed or was cleared since
IsStaleDecode(p) ==
  \/ p.audioData # hook.audioData
  \/ p.context # audioContextRef

\* C22: in every reachable state of a mounted instance, if isAudioReady is
\* true or a buffer is held, the buffer was decoded from the current
\* audioData; and when a decode started for an earlier audioData settles it
\* neither sets isAudioReady nor replaces the buffer.
C22_BufferOfCurrentAudioData ==
  /\ []((hook.mounted /\ (isAudioReady \/ audioBufferRef # Null))
          => audioBufferRef = hook.audioData)
  /\ [][\A p \in webAudio.decodes :
          (p \notin webAudio'.decodes /\ IsStaleDecode(p))
            => /\ isAudioReady' => isAudioReady
               /\ audioBufferRef' = audioBufferRef]_vars

\* C23: once the component of a useAudioPlayback instance is discarded, no
\* context the instance created is open and no source it started is heard,
\* whichever way the component went: unmounted by its parent, or torn down
\* because base64 decoding or audio decoding failed.
C23_ReleasedOnEveryExit ==
  ~hook.mounted => (OpenContexts = {} /\ ActiveHandles = {})

\* the values useAudioPlayback returns, apart from the togglePlayback
\* function: lines 65-69
Exposed == <<isPlaying, isAudioReady>>

\* C24: when the decode of the current audioData settles, the instance is
\* either ready or, if the decode failed, what it returns to its caller
\* differs from what it returned while the decode was in progress.
C24_FailureDistinctFromProgress ==
  [][\A p \in webAudio.decodes :
       (hook.mounted /\ p \notin webAudio'.decodes /\ ~IsStaleDecode(p))
         => (isAudioReady' \/ Exposed' # Exposed)]_vars

\* C25: while the result of a request is shown, narration that cannot be
\* decoded (not base64, or not whole samples) leaves the result view with
\* its text on screen and isAudioReady false, and neither the failing effect
\* nor the rejected decode changes the state of App.
C25_DecodeFailureIsLocal ==
  /\ []((status = Done /\ imageUrl # "" /\ audioData # ""
            /\ ~DecodeOutcome(audioData).ok)
          => (hook.mounted /\ ~isAudioReady))
  /\ [][\A p \in webAudio.decodes :
          (p \notin webAudio'.decodes /\ ~DecodeOutcome(p.audioData).ok)
             => (app' = app /\ ~isAudioReady')]_vars

\* the request has ended in Done and App holds the result of each stage for
\* the submitted file
DoneWithResults ==
  /\ status = Done
  /\ landmarkName = LandmarkOf(imageFile)
  /\ \E o \in HistoryOutcomes(landmarkName) :
       /\ o.ok
       /\ landmarkInfo = fetchLandmarkHistory(o).value.text
       /\ groundingSources = fetchLandmarkHistory(o).value.sources
  /\ \E o \in NarrationPayloads(landmarkInfo) :
       /\ generateNarration(o).ok
       /\ audioData = generateNarration(o).value

\* C26: a submitted request whose promises settle reaches Done with the
\* results of its stages, unless a stage fails (Error) or the user resets
\* (Idle); once it is Done with audio that decodes, isAudioReady becomes true
\* unless the user resets; and from then on a step that starts a source
\* while nothing plays sets isPlaying, and a step that stops the source of
\* sourceRef while it plays clears isPlaying and leaves isAudioReady true.
C26_FullSuccessLiveness ==
  /\ (status = Identifying) ~> (DoneWithResults \/ status = Error \/ status = Idle)
  /\ (status = Done /\ hook.mounted /\ DecodeOutcome(audioData).ok)
        ~> (isAudioReady \/ status = Idle)
  /\ [][(hook.mounted /\ hook'.mounted /\ isAudioReady) =>
          /\ (~isPlaying /\ Len(webAudio'.sources) > Len(webAudio.sources))
               => /\ isPlaying' /\ isAudioReady'
                  /\ sourceRef' = Len(webAudio'.sources)
                  /\ Active(webAudio', sourceRef')
          /\ (isPlaying /\ Active(webAudio, sourceRef)
                /\ webAudio'.sources[sourceRef].state = "stopped")
               => ~isPlaying' /\ isAudioReady']_vars

C26_Witness ==
  /\ DoneWithResults
  /\ audioData = "AAABAA=="
  /\ isAudioReady /\ ~isPlaying
  /\ Len(webAudio.sources) = 1
  /\ webAudio.sources[1].state = "stopped"

\* C27: while status is Identifying, Fetching or Narrating it changes only in
\* a step in which the promise the current request awaits settles, or in a
\* reset by the user: nothing else moves a request on, to Done or to Error.
C27_NoTimeout ==
  [][(status \in {Identifying, Fetching, Narrating} /\ status' # status)
       => \/ IsReset
          \/ \E t \in 1..Len(tasks) : IsCurrent(t) /\ Settles(t)]_vars

\* the call of PcmSpec has been decoded
PcmSettled == call.op = "decodeBase64ToPCM" /\ call.settled # <<>>

\* the bytes a 16-bit signed sample is stored as, low byte first
LittleEndian(v) ==
  LET u == (v + 65536) % 65536 IN <<u % 256, u \div 256>>

\* C28: decoding the base64 encoding of an even number of bytes returns the
\* 16-bit signed samples those bytes are the little-endian form of, one
\* sample for every two bytes in their order; the encoding of an odd number
\* of bytes is rejected with MalformedPayload and yields no samples.
C28_PcmRoundTrip ==
  PcmSettled =>
    LET bytes == call.arg
        r == call.settled[1]
    IN IF Len(bytes) % 2 = 0
       THEN /\ r.ok
            /\ Len(r.value) * 2 = Len(bytes)
            /\ \A i \in 1..Len(r.value) :
                 /\ r.value[i] \in -32768..32767
                 /\ LittleEndian(r.value[i]) = <<bytes[2 * i - 1], bytes[2 * i]>>
       ELSE /\ ~r.ok
            /\ r.message = "MalformedPayload"

C28_Witness ==
  /\ PcmSettled
  /\ call.arg = <<255, 127, 0, 128>>
  /\ call.outcome = Base64Chars("/38AgA==")
  /\ call.settled[1] = Return(<<32767, -32768>>)

\* the key getAI finds in the environment of the module, if it finds one
KeyFound ==
  IF service.env.API_KEY \notin {Undefined, ""} THEN service.env.API_KEY
  ELSE IF service.env.GEMINI_API_KEY \notin {Undefined, ""}
  THEN service.env.GEMINI_API_KEY
  ELSE Null

\* C29: the module constructs no client when it is loaded and at most one
\* over any sequence of operations; a client is constructed exactly in the
\* first call that finds a key, with that key, and is kept; with no key
\* configured no client is ever constructed and every operation fails with
\* the message of getAI, which the catch block of handleImageSelect turns
\* into status Error with that message.
C29_LazySingletonClient ==
  /\ [](/\ service.constructed <= 1
        /\ service.calls = 0 => service.constructed = 0
        /\ service.calls > 0 =>
             /\ service.constructed = (IF KeyFound = Null THEN 0 ELSE 1)
             /\ service.ai = KeyFound)
  /\ []((service.calls > 0 /\ KeyFound = Null) =>
          /\ call.settled = <<Throw(ApiKeyMessage)>>
          /\ Catch(app, TRUE, call.settled[1].message).status = Error
          /\ Catch(app, TRUE, call.settled[1].message).error = ApiKeyMessage)
  /\ [][service.constructed' > service.constructed =>
          /\ service.ai = Null
          /\ service.calls' = service.calls + 1]_vars

C29_Witness ==
  /\ service.calls = MaxCalls
  /\ service.env = [API_KEY |-> "", GEMINI_API_KEY |-> "key-2"]
  /\ service.ai = "key-2"
  /\ service.constructed = 1
  /\ call.op = "generateNarration"
  /\ call.settled[1].ok

\* C30: in every reachable state error is set exactly when status is Error.
C30_ErrorIffStatusError == (error # Null) <=> (status = Error)

\* C31: in every reachable state one of the three views is rendered, and
\* whenever status is not Idle the view that is rendered carries a reset
\* control (the result view or the error view), so that the user can always
\* get back to the uploader.
C31_NoDeadEnd ==
  /\ showUploader \/ showError \/ showResult
  /\ status # Idle => (showError \/ showResult)

\* C32: when handleImageSelect starts a request no promise of an earlier
\* invocation is pending, and in every reachable state at most one promise
\* is pending over all invocations.
C32_OnePipelineInFlight ==
  /\ [](Cardinality(inflight) <= 1)
  /\ [][IsSubmit => inflight = {}]_vars

\* C33: whenever status is Done and the result view is shown, the result on
\* screen is the result of one
\* submission, the latest: the image is the one of the submitted file, and
\* landmarkName, landmarkInfo and audioData are what the stages return for
\* that file.
C33_DoneResultOfOneSubmission ==
  (status = Done /\ showResult) =>
    /\ imageFile \in Files
    /\ imageUrl = createObjectURL(imageFile)
    /\ landmarkName = LandmarkOf(imageFile)
    /\ landmarkInfo = HistoryText(landmarkName)
    /\ audioData = AudioPayload(landmarkInfo)

\* C34: in every reachable state of the mounted hook, isPlaying is true if and
\* only if a source that was started has neither been stopped nor come to its
\* end.
C34_IsPlayingAgreesWithDevice ==
  hook.mounted =>
    (isPlaying <=> \E i \in 1..Len(webAudio.sources) :
                     webAudio.sources[i].state = "playing")

====
